---- MODULE Spec2Model ----
(***************************************************************************)
(* Model of the site-analyzer browser script (src/script.js).              *)
(*                                                                         *)
(* The script registers two event handlers on a page:                      *)
(*   - the submit handler of #analyzeForm (async: it suspends at           *)
(*     `await fetch(...)` and at `await response.json()`), and             *)
(*   - the click handler of #downloadBtn (synchronous).                    *)
(* The page state is the `hidden` class of #loading, #results and #error,  *)
(* the text of the error paragraph, the text of the nine result fields,    *)
(* and the module variable currentReportPDF.                               *)
(*                                                                         *)
(* JavaScript is single-threaded: each action below is one run of          *)
(* synchronous code between two suspension points.                         *)
(***************************************************************************)
EXTENDS Integers, Sequences, FiniteSets, TLC

VARIABLES
    loadingHidden,     \* #loading has class `hidden`
    resultsHidden,     \* #results has class `hidden`
    errorHidden,       \* #error has class `hidden`
    errorText,         \* textContent of the <p> inside #error
    fields,            \* textContent of the nine result elements
    currentReportPDF,  \* script.js:4
    requests,          \* one entry per run of the submit handler that called fetch()
    liveURLs,          \* object URLs created and not yet revoked
    anchors,           \* <a> elements currently appended to document.body
    lastSave,          \* the file the browser was last asked to save (a.click())
    uncaught,          \* the most recent handler run ended with an uncaught exception
    log,               \* observable calls made by the most recent handler run
    lastEvent,         \* the event the most recent handler run reacted to
    nonBlankSubmits,   \* submits whose input had a non-whitespace character
    base,              \* page state when the oldest pending request was issued
    groupSize,         \* requests issued since no request was pending
    groupClean,        \* no other event since the oldest pending request
    engine             \* the JavaScript engine the page runs in

vars == << loadingHidden, resultsHidden, errorHidden, errorText, fields,
           currentReportPDF, requests, liveURLs, anchors, lastSave, uncaught,
           log, lastEvent, nonBlankSubmits, base, groupSize,
           groupClean, engine >>

(***************************************************************************)
(* Bounds of the model.                                                    *)
(***************************************************************************)
MaxSubmits == 2

(***************************************************************************)
(* JavaScript values.  Every value is a tagged record so that values of    *)
(* different JavaScript types can be compared.  Texts that are only        *)
(* displayed are TLA+ strings; texts the script inspects character by      *)
(* character (the address input, the base64 payload) are sequences of      *)
(* one-character strings.                                                  *)
(***************************************************************************)
Undefined == [t |-> "undefined"]
Null == [t |-> "null"]
Str(s) == [t |-> "str", s |-> s]
\* A finite double below 2^31 in magnitude: its sign, its integer part, the
\* digits after the point of the shortest decimal that reads back as this
\* double (what Number::toString prints, `frac`), and the digits after the
\* point of the double's exact binary value (`exact`, a finite expansion).
Num(neg, int, frac, exact) ==
    [t |-> "num", neg |-> neg, int |-> int, frac |-> frac, exact |-> exact]

\* ToBoolean(v) = false
Falsy(v) ==
    \/ v.t \in {"undefined", "null"}
    \/ v.t = "str" /\ Len(v.s) = 0
    \/ v.t = "num" /\ v.int = 0 /\ \A i \in 1..Len(v.frac) : v.frac[i] = 0

\* a || b
Or(a, b) == IF Falsy(a) THEN b ELSE a

(***************************************************************************)
(* String.prototype.trim on a string given as its UTF-16 code units.  The   *)
(* set is WhiteSpace and LineTerminator of ECMAScript: TAB, LF, VT, FF, CR, *)
(* SP, NBSP, the other space separators (Zs), LS, PS and U+FEFF.           *)
(***************************************************************************)
WhiteSpace ==
    {9, 10, 11, 12, 13, 32, 160, 5760} \cup (8192..8202)
      \cup {8232, 8233, 8239, 8287, 12288, 65279}

RECURSIVE TrimStart(_)
TrimStart(s) ==
    IF s # <<>> /\ Head(s) \in WhiteSpace THEN TrimStart(Tail(s)) ELSE s

RECURSIVE TrimEnd(_)
TrimEnd(s) ==
    IF s # <<>> /\ s[Len(s)] \in WhiteSpace
    THEN TrimEnd(SubSeq(s, 1, Len(s) - 1))
    ELSE s

Trim(s) == TrimEnd(TrimStart(s))

(***************************************************************************)
(* Number.prototype.toFixed(d) on a finite double below 1e21, and the      *)
(* conversions a DOM text setter applies to the value assigned to it.      *)
(***************************************************************************)
RECURSIVE Pow10(_)
Pow10(d) == IF d = 0 THEN 1 ELSE 10 * Pow10(d - 1)

\* the k-th digit after the point of the exact value
FracDigit(x, k) == IF k <= Len(x.exact) THEN x.exact[k] ELSE 0

\* the first d digits after the point, read as an integer
RECURSIVE FracValue(_, _)
FracValue(x, d) ==
    IF d = 0 THEN 0 ELSE 10 * FracValue(x, d - 1) + FracDigit(x, d)

\* n written with exactly d digits
RECURSIVE PadZeros(_, _)
PadZeros(n, d) ==
    IF d = 0 THEN "" ELSE PadZeros(n \div 10, d - 1) \o ToString(n % 10)

IsZero(x) == x.int = 0 /\ \A i \in 1..Len(x.exact) : x.exact[i] = 0

\* "Let n be an integer for which n / 10^f - x is as close to zero as
\* possible.  If there are two such n, pick the larger n."  RoundsUp tells
\* whether n is above x * 10^f, decided on the exact value of the double;
\* in toFixed, n counts the units of 10^-d beyond the integer part.
RoundsUp(x, d) == FracDigit(x, d + 1) >= 5

\* a variant that cuts the digits off instead of rounding
toFixedTruncating(x, d) ==
    (IF x.neg /\ ~IsZero(x) THEN "-" ELSE "")
      \o ToString(x.int)
      \o (IF d = 0 THEN "" ELSE "." \o PadZeros(FracValue(x, d), d))

toFixed(x, d) ==
    CHOOSE text \in
      { (IF x.neg /\ ~IsZero(x) THEN "-" ELSE "")
          \o ToString(x.int + n \div Pow10(d))
          \o (IF d = 0 THEN "" ELSE "." \o PadZeros(n % Pow10(d), d)) :
        n \in { FracValue(x, d) + (IF RoundsUp(x, d) THEN 1 ELSE 0) } } : TRUE

\* v.toFixed is callable only on a number
HasToFixed(v) == v.t = "num"

\* the digits after the point without trailing zeros
RECURSIVE StripZeros(_)
StripZeros(ds) ==
    IF ds # <<>> /\ ds[Len(ds)] = 0
    THEN StripZeros(SubSeq(ds, 1, Len(ds) - 1))
    ELSE ds

RECURSIVE DigitsToString(_)
DigitsToString(ds) ==
    IF ds = <<>> THEN "" ELSE ToString(Head(ds)) \o DigitsToString(Tail(ds))

\* the number of zeros ds starts with
RECURSIVE LeadingZeros(_)
LeadingZeros(ds) ==
    IF ds # <<>> /\ Head(ds) = 0 THEN 1 + LeadingZeros(Tail(ds)) ELSE 0

\* Number::toString for a double below 2^31 in magnitude: the shortest
\* digits, in decimal notation from 1e-6 upwards and in exponent notation
\* below
NumberToString(x) ==
    LET ds == StripZeros(x.frac)
        zeros == LeadingZeros(ds)
        digits == SubSeq(ds, zeros + 1, Len(ds))
        sign == IF x.neg /\ ~IsZero(x) THEN "-" ELSE ""
    IN IF x.int = 0 /\ ds # <<>> /\ zeros >= 6
       THEN sign \o ToString(Head(digits))
              \o (IF Len(digits) = 1 THEN ""
                  ELSE "." \o DigitsToString(Tail(digits)))
              \o "e-" \o ToString(zeros + 1)
       ELSE sign \o ToString(x.int)
              \o (IF ds = <<>> THEN "" ELSE "." \o DigitsToString(ds))

\* The text an element holds after `el.textContent = v`: the attribute is a
\* nullable DOMString, so undefined and null both clear the text.
TextContent(v) ==
    CASE v.t \in {"undefined", "null"} -> ""
      [] v.t = "str" -> v.s
      [] v.t = "num" -> NumberToString(v)
      [] OTHER -> "[object Object]"

(***************************************************************************)
(* window.atob: the forgiving-base64 decode of the HTML standard.          *)
(***************************************************************************)
B64Alphabet ==
    << "A", "B", "C", "D", "E", "F", "G", "H", "I", "J", "K", "L", "M",
       "N", "O", "P", "Q", "R", "S", "T", "U", "V", "W", "X", "Y", "Z",
       "a", "b", "c", "d", "e", "f", "g", "h", "i", "j", "k", "l", "m",
       "n", "o", "p", "q", "r", "s", "t", "u", "v", "w", "x", "y", "z",
       "0", "1", "2", "3", "4", "5", "6", "7", "8", "9", "+", "/" >>

B64Chars == { B64Alphabet[i] : i \in 1..Len(B64Alphabet) }

B64Index(c) == (CHOOSE i \in 1..Len(B64Alphabet) : B64Alphabet[i] = c) - 1

AsciiWhiteSpace == {" ", "\t", "\n", "\f", "\r"}

RECURSIVE StripWhiteSpace(_)
StripWhiteSpace(s) ==
    IF s = <<>> THEN <<>>
    ELSE IF Head(s) \in AsciiWhiteSpace THEN StripWhiteSpace(Tail(s))
    ELSE <<Head(s)>> \o StripWhiteSpace(Tail(s))

\* "If data's length divides by 4 leaving no remainder: if data ends with
\* one or two U+003D (=) code points, remove them."
StripPadding(s) ==
    IF Len(s) % 4 # 0 THEN s
    ELSE IF Len(s) >= 2 /\ s[Len(s)] = "=" /\ s[Len(s) - 1] = "="
    THEN SubSeq(s, 1, Len(s) - 2)
    ELSE IF Len(s) >= 1 /\ s[Len(s)] = "="
    THEN SubSeq(s, 1, Len(s) - 1)
    ELSE s

\* the bytes of a run of base64 characters, 6 bits each, leftover bits dropped
RECURSIVE DecodeGroups(_)
DecodeGroups(s) ==
    IF Len(s) >= 4 THEN
        LET v == B64Index(s[1]) * 262144 + B64Index(s[2]) * 4096
                   + B64Index(s[3]) * 64 + B64Index(s[4])
        IN << v \div 65536, (v \div 256) % 256, v % 256 >>
             \o DecodeGroups(SubSeq(s, 5, Len(s)))
    ELSE IF Len(s) = 3 THEN
        LET v == (B64Index(s[1]) * 4096 + B64Index(s[2]) * 64
                    + B64Index(s[3])) \div 4
        IN << v \div 256, v % 256 >>
    ELSE IF Len(s) = 2 THEN
        << (B64Index(s[1]) * 64 + B64Index(s[2])) \div 16 >>
    ELSE <<>>

\* a variant that decodes whole groups of four characters only
atobWholeGroupsOnly(s) ==
    LET data == StripPadding(StripWhiteSpace(s))
    IN IF Len(data) % 4 = 1 \/ \E i \in 1..Len(data) : data[i] \notin B64Chars
       THEN [threw |-> TRUE, bytes |-> <<>>]
       ELSE [threw |-> FALSE,
             bytes |-> DecodeGroups(SubSeq(data, 1, 4 * (Len(data) \div 4)))]

\* atob(s): the decoded bytes, or a thrown InvalidCharacterError
atob(s) ==
    LET data == StripPadding(StripWhiteSpace(s))
    IN IF Len(data) % 4 = 1 \/ \E i \in 1..Len(data) : data[i] \notin B64Chars
       THEN [threw |-> TRUE, bytes |-> <<>>]
       ELSE [threw |-> FALSE, bytes |-> DecodeGroups(data)]

\* The encoding the analysis service applies to the report: base64 of
\* RFC 4648 section 4, standard alphabet, padded with "=".
RECURSIVE Base64Encode(_)
Base64Encode(b) ==
    IF Len(b) >= 3 THEN
        LET v == b[1] * 65536 + b[2] * 256 + b[3]
        IN << B64Alphabet[(v \div 262144) + 1],
              B64Alphabet[((v \div 4096) % 64) + 1],
              B64Alphabet[((v \div 64) % 64) + 1],
              B64Alphabet[(v % 64) + 1] >>
             \o Base64Encode(SubSeq(b, 4, Len(b)))
    ELSE IF Len(b) = 2 THEN
        LET v == (b[1] * 256 + b[2]) * 4
        IN << B64Alphabet[(v \div 4096) + 1],
              B64Alphabet[((v \div 64) % 64) + 1],
              B64Alphabet[(v % 64) + 1], "=" >>
    ELSE IF Len(b) = 1 THEN
        LET v == b[1] * 16
        IN << B64Alphabet[(v \div 64) + 1], B64Alphabet[(v % 64) + 1],
              "=", "=" >>
    ELSE <<>>

(***************************************************************************)
(* Parsed JSON bodies.  An object is a record tagged "obj"; reading a      *)
(* property of undefined or null throws a TypeError, reading a missing     *)
(* property yields undefined.                                              *)
(***************************************************************************)
CanRead(v) == v.t \notin {"undefined", "null"}

Get(v, name) ==
    IF v.t = "obj" /\ name \in DOMAIN v THEN v[name] ELSE Undefined

\* String(v)
JSString(v) ==
    CASE v.t = "undefined" -> "undefined"
      [] v.t = "null" -> "null"
      [] v.t = "str" -> v.s
      [] v.t = "num" -> NumberToString(v)
      [] OTHER -> "[object Object]"

\* (new Error(v)).message
ErrorMessage(v) == IF v.t = "undefined" THEN "" ELSE JSString(v)

\* The texts of the errors the engine itself raises are the engine's own.
\* Those of V8 are modelled, which worded them in three ways over time:
\*   - reading a property of undefined or null: "Cannot read property 'x'
\*     of undefined" up to V8 9.2 (Node 14), "Cannot read properties of
\*     undefined (reading 'x')" since (Node 16 and later);
\*   - JSON text starting with "<": "Unexpected token < in JSON at position
\*     0" in the older releases (Node 18 and before), quoting the text in
\*     V8 11 and later (Node 20, Chrome 147).
\* The host that implements response.json() words the rejection for an
\* empty body: Node always as the parser does, "Unexpected end of JSON
\* input"; Chrome in most runs with the operation's name in front, "Failed
\* to execute 'json' on 'Response': Unexpected end of JSON input", and in
\* the others as Node does.  The third engine is Chrome and Node 20 alike:
\* what Node 20 displays is among what Chrome displays.
Engines ==
    { [readError |-> "property", parseError |-> "position",
       jsonPrefix |-> FALSE],
      [readError |-> "properties", parseError |-> "position",
       jsonPrefix |-> FALSE],
      [readError |-> "properties", parseError |-> "quoted",
       jsonPrefix |-> TRUE] }

\* the message of the TypeError of `v.name` on undefined or null
CannotReadMessage(e, v, name) ==
    IF e.readError = "property"
    THEN "Cannot read property '" \o name \o "' of " \o JSString(v)
    ELSE "Cannot read properties of " \o JSString(v)
           \o " (reading '" \o name \o "')"

\* the message of the SyntaxError of parsing the text
\* <html><body>Bad Gateway</body></html> as JSON
UnexpectedTokenMessage(e) ==
    IF e.parseError = "position"
    THEN "Unexpected token < in JSON at position 0"
    ELSE "Unexpected token '<', \"<html><bod\"... is not valid JSON"

\* the messages response.json() can reject with when the body is empty
EndOfInputMessages(e) ==
    {"Unexpected end of JSON input"}
      \cup (IF e.jsonPrefix
            THEN {"Failed to execute 'json' on 'Response': "
                    \o "Unexpected end of JSON input"}
            ELSE {})

\* the message of the TypeError of `v.toFixed(..)` on a value without it
NotAFunctionMessage(name) == name \o ".toFixed is not a function"

\* the message of the TypeError thrown by `owner.name.toFixed(..)`
ToFixedThrowMessage(e, v, name) ==
    IF CanRead(v) THEN NotAFunctionMessage(name)
    ELSE CannotReadMessage(e, v, "toFixed")

(***************************************************************************)
(* The page: what the handlers read and write.  The handlers are written   *)
(* as functions from page to page; `log` lists the calls a run made.       *)
(***************************************************************************)
FieldNames ==
    { "resultAddress", "resultCoords", "elevMin", "elevMax", "elevAvg",
      "elevChange", "slopeClass", "buildability", "accessScore" }

Page ==
    [ loadingHidden |-> loadingHidden,
      resultsHidden |-> resultsHidden,
      errorHidden |-> errorHidden,
      errorText |-> errorText,
      fields |-> fields,
      currentReportPDF |-> currentReportPDF,
      liveURLs |-> liveURLs,
      anchors |-> anchors,
      lastSave |-> lastSave,
      uncaught |-> FALSE,
      log |-> <<>> ]

Call(w, name) == [w EXCEPT !.log = Append(@, name)]

\* a variant that leaves the access score out
SetFieldButAccessScore(w, id, text) ==
    IF id = "accessScore" THEN Call(w, id)
    ELSE Call([w EXCEPT !.fields[id] = text], id)

\* document.getElementById(id).textContent = text
SetField(w, id, text) == Call([w EXCEPT !.fields[id] = text], id)

\* a variant that adds the message to the text already displayed
showErrorAppending(w, message) ==
    Call([w EXCEPT !.errorText = IF w.errorHidden THEN message
                                 ELSE @ \o " " \o message,
                   !.errorHidden = FALSE], "showError")

\* script.js:73-77
showError(w, message) ==
    Call([w EXCEPT !.errorText = message, !.errorHidden = FALSE], "showError")

Return(w) == [w |-> w, threw |-> FALSE, message |-> ""]
Throw(w, message) == [w |-> w, threw |-> TRUE, message |-> message]

\* a variant that keeps the held payload when the result carries none
StoreReportIfPresent(w, data) ==
    IF Falsy(Get(data, "report_pdf")) THEN Call(w, "currentReportPDF")
    ELSE Call([w EXCEPT !.currentReportPDF = Get(data, "report_pdf")],
              "currentReportPDF")

\* script.js:48
StoreReport(w, data) ==
    Call([w EXCEPT !.currentReportPDF = Get(data, "report_pdf")],
         "currentReportPDF")

\* script.js:46-71; the statements run in order and the first one that
\* throws ends the function, leaving the earlier assignments in place
displayResults(w, data) ==
    IF ~CanRead(data) THEN Throw(w, CannotReadMessage(engine, data, "report_pdf"))
    ELSE
    LET lat == Get(data, "latitude")
        lon == Get(data, "longitude")
        emin == Get(data, "elevation_min")
        emax == Get(data, "elevation_max")
        eavg == Get(data, "elevation_avg")
        sa == Get(data, "slope_analysis")
        chg == Get(sa, "elevation_change_meters")
        w1 == StoreReport(w, data)
        w2 == SetField(w1, "resultAddress", TextContent(Get(data, "address")))
        w3 == SetField(w2, "resultCoords",
                  "Coordinates: " \o toFixed(lat, 6) \o ", " \o toFixed(lon, 6))
        w4 == SetField(w3, "elevMin", toFixed(emin, 1) \o "m")
        w5 == SetField(w4, "elevMax", toFixed(emax, 1) \o "m")
        w6 == SetField(w5, "elevAvg", toFixed(eavg, 1) \o "m")
        w7 == SetField(w6, "elevChange", toFixed(chg, 1) \o "m")
        w8 == SetField(w7, "slopeClass",
                  TextContent(Get(sa, "slope_classification")))
        w9 == SetField(w8, "buildability",
                  TextContent(Get(sa, "buildability_assessment")))
        w10 == SetField(w9, "accessScore",
                  TextContent(Get(data, "access_score")))
        w11 == Call(Call([w10 EXCEPT !.resultsHidden = FALSE], "results.show"),
                    "scrollIntoView")
    IN  IF ~HasToFixed(lat)
          THEN Throw(w2, ToFixedThrowMessage(engine, lat, "data.latitude"))
        ELSE IF ~HasToFixed(lon)
          THEN Throw(w2, ToFixedThrowMessage(engine, lon, "data.longitude"))
        ELSE IF ~HasToFixed(emin)
          THEN Throw(w3, ToFixedThrowMessage(engine, emin, "data.elevation_min"))
        ELSE IF ~HasToFixed(emax)
          THEN Throw(w4, ToFixedThrowMessage(engine, emax, "data.elevation_max"))
        ELSE IF ~HasToFixed(eavg)
          THEN Throw(w5, ToFixedThrowMessage(engine, eavg, "data.elevation_avg"))
        ELSE IF ~CanRead(sa)
          THEN Throw(w6, CannotReadMessage(engine, sa, "elevation_change_meters"))
        ELSE IF ~HasToFixed(chg)
          THEN Throw(w6, ToFixedThrowMessage(engine, chg,
                           "data.slope_analysis.elevation_change_meters"))
        ELSE Return(w11)

(***************************************************************************)
(* The submit handler, script.js:6-44, cut at its two awaits.              *)
(***************************************************************************)
\* script.js:11-14, the validation failure
RejectAddress(w) == showError(w, "Please enter an address")

\* a variant that drops the held report when a new analysis starts
ShowLoadingDropsReport(w) ==
    Call(Call(Call([w EXCEPT !.loadingHidden = FALSE, !.resultsHidden = TRUE,
                             !.errorHidden = TRUE, !.currentReportPDF = Null],
                   "loading.show"), "results.hide"), "error.hide")

\* script.js:16-19
ShowLoading(w) ==
    Call(Call(Call([w EXCEPT !.loadingHidden = FALSE, !.resultsHidden = TRUE,
                             !.errorHidden = TRUE],
                   "loading.show"), "results.hide"), "error.hide")

\* a variant without the fallback text of script.js:39
CatchWithoutFallback(w, message) ==
    showError(Call(w, "console.error"), message)

\* script.js:38-40
Catch(w, message) ==
    showError(Call(w, "console.error"),
              IF message = "" THEN "Failed to analyze site. Please try again."
              ELSE message)

\* script.js:41-43
Finally(w) == Call([w EXCEPT !.loadingHidden = TRUE], "loading.hide")

\* a variant that hides the loading indicator on the success path only
OnRejectedNoFinally(w, message) == Catch(w, message)

\* fetch() or response.json() rejected with an error carrying `message`
OnRejected(w, message) == Finally(Catch(w, message))

\* a variant that ignores the body's detail
ThrowGenericServiceError(w, errorData) == Throw(w, "Analysis failed")

\* script.js:30-33 once response.json() resolved with errorData
ThrowServiceError(w, errorData) ==
    IF ~CanRead(errorData)
    THEN Throw(w, CannotReadMessage(engine, errorData, "detail"))
    ELSE Throw(w, ErrorMessage(Or(Get(errorData, "detail"),
                                  Str("Analysis failed"))))

\* script.js:30-43 once response.json() resolved with `value`
OnJsonResolved(w, ok, value) ==
    CHOOSE after \in
        { IF res.threw THEN Finally(Catch(res.w, res.message))
          ELSE Finally(res.w) :
            res \in { IF ok THEN displayResults(w, value)
                      ELSE ThrowServiceError(w, value) } } : TRUE

(***************************************************************************)
(* The click handler of #downloadBtn, script.js:80-103.                    *)
(***************************************************************************)
\* a variant that stops at a failed save, before the cleanup
SaveFileLeaksOnFailure(w, bytes, saved) ==
    LET w1 == Call(Call(w, "atob"), "Blob")
        w2 == Call([w1 EXCEPT !.liveURLs = @ + 1], "createObjectURL")
        w3 == Call([w2 EXCEPT !.anchors = @ + 1], "appendChild")
        w4 == Call([w3 EXCEPT !.lastSave =
                       [ filename |-> "site-analysis-report.pdf",
                         type |-> "application/pdf",
                         content |-> bytes ]], "click")
        w5 == Call([w4 EXCEPT !.liveURLs = @ - 1], "revokeObjectURL")
    IN IF saved THEN Call([w5 EXCEPT !.anchors = @ - 1], "removeChild")
       ELSE Call(w4, "save.failed")

\* script.js:86-102 with the decoded bytes in hand.  a.click() hands the
\* blob to the browser, which saves it or fails to (`saved`); click() does
\* not throw either way and the handler goes on to the cleanup.
SaveFile(w, bytes, saved) ==
    LET w1 == Call(Call(w, "atob"), "Blob")
        w2 == Call([w1 EXCEPT !.liveURLs = @ + 1], "createObjectURL")
        w3 == Call([w2 EXCEPT !.anchors = @ + 1], "appendChild")
        w4 == Call([w3 EXCEPT !.lastSave =
                       [ filename |-> "site-analysis-report.pdf",
                         type |-> "application/pdf",
                         content |-> bytes ]], "click")
        w5 == IF saved THEN w4 ELSE Call(w4, "save.failed")
        w6 == Call([w5 EXCEPT !.liveURLs = @ - 1], "revokeObjectURL")
    IN Call([w6 EXCEPT !.anchors = @ - 1], "removeChild")

\* a variant whose guard is `currentReportPDF === null`: an undefined
\* payload reaches atob as the text "undefined", which is not base64
DownloadReportNullOnly(w, saved) ==
    IF w.currentReportPDF.t = "null"
    THEN showError(w, "No report available to download")
    ELSE LET decoded == atob(IF w.currentReportPDF.t = "str"
                             THEN w.currentReportPDF.s
                             ELSE <<"u", "n", "d", "e", "f", "i", "n", "e", "d">>)
         IN IF decoded.threw
            THEN Call([w EXCEPT !.uncaught = TRUE], "atob")
            ELSE SaveFile(w, decoded.bytes, saved)

\* script.js:80-103; atob throws outside any try block
DownloadReport(w, saved) ==
    IF Falsy(w.currentReportPDF)
    THEN showError(w, "No report available to download")
    ELSE LET decoded == atob(w.currentReportPDF.s)
         IN IF decoded.threw
            THEN Call([w EXCEPT !.uncaught = TRUE], "atob")
            ELSE SaveFile(w, decoded.bytes, saved)

(***************************************************************************)
(* Inputs: what the user types, and what the network answers.              *)
(***************************************************************************)
\* contents of #addressInput as code units: "", " \t\r\n" followed by a
\* no-break space, and "\ta b\r\n"
AddressInputs ==
    { <<>>, <<32, 9, 13, 10, 160>>, <<9, 97, 32, 98, 13, 10>> }

\* the claim's own notion of an empty or whitespace-only input
IsBlank(value) == \A i \in 1..Len(value) : value[i] \in WhiteSpace

Parsed(value) == [parses |-> TRUE, value |-> value, message |-> ""]
Unparsable(message) ==
    [parses |-> FALSE, value |-> Undefined, message |-> message]

\* the empty body, as response.json() can reject it in the engine the page
\* runs in
MissingBodies == { Unparsable(message) : message \in EndOfInputMessages(engine) }
\* the body <html><body>Bad Gateway</body></html>, as response.json()
\* rejects it in the engine the page runs in
HtmlBody == Unparsable(UnexpectedTokenMessage(engine))
NoBody == Unparsable("")

\* the digits after the point of the exact binary values of the doubles
\* nearest to 40.76, 111.88, ...
Exact111_88 ==
    << 8, 7, 9, 9, 9, 9, 9, 9, 9, 9, 9, 9, 9, 9, 5, 4, 5, 2, 5, 2, 6, 4, 9,
       1, 1, 3, 5, 3, 5, 8, 8, 1, 0, 4, 2, 4, 8, 0, 4, 6, 8, 7, 5 >>

Exact111_8910435 ==
    << 8, 9, 1, 0, 4, 3, 4, 9, 9, 9, 9, 9, 9, 9, 4, 9, 9, 2, 3, 2, 2, 1, 7,
       2, 0, 3, 8, 2, 5, 7, 1, 2, 2, 0, 3, 9, 7, 9, 4, 9, 2, 1, 8, 7, 5 >>

Exact1279_95 ==
    << 9, 5, 0, 0, 0, 0, 0, 0, 0, 0, 0, 0, 0, 4, 5, 4, 7, 4, 7, 3, 5, 0, 8,
       8, 6, 4, 6, 4, 1, 1, 8, 9, 5, 7, 5, 1, 9, 5, 3, 1, 2, 5 >>

Exact1295_2 ==
    << 2, 0, 0, 0, 0, 0, 0, 0, 0, 0, 0, 0, 0, 4, 5, 4, 7, 4, 7, 3, 5, 0, 8,
       8, 6, 4, 6, 4, 1, 1, 8, 9, 5, 7, 5, 1, 9, 5, 3, 1, 2, 5 >>

Exact1310_55 ==
    << 5, 4, 9, 9, 9, 9, 9, 9, 9, 9, 9, 9, 9, 5, 4, 5, 2, 5, 2, 6, 4, 9, 1,
       1, 3, 5, 3, 5, 8, 8, 1, 0, 4, 2, 4, 8, 0, 4, 6, 8, 7, 5 >>

Exact2_35 ==
    << 3, 5, 0, 0, 0, 0, 0, 0, 0, 0, 0, 0, 0, 0, 0, 0, 8, 8, 8, 1, 7, 8, 4,
       1, 9, 7, 0, 0, 1, 2, 5, 2, 3, 2, 3, 3, 8, 9, 0, 5, 3, 3, 4, 4, 7, 2,
       6, 5, 6, 2, 5 >>

Exact40_76 ==
    << 7, 5, 9, 9, 9, 9, 9, 9, 9, 9, 9, 9, 9, 9, 8, 0, 1, 0, 4, 8, 0, 3, 3,
       9, 8, 7, 1, 7, 1, 9, 4, 7, 9, 5, 6, 0, 8, 5, 2, 0, 5, 0, 7, 8, 1, 2, 5 >>

Exact40_7608525 ==
    << 7, 6, 0, 8, 5, 2, 4, 9, 9, 9, 9, 9, 9, 9, 8, 5, 9, 9, 3, 7, 8, 1, 5,
       9, 2, 6, 9, 6, 9, 0, 5, 1, 3, 6, 1, 0, 8, 3, 9, 8, 4, 3, 7, 5 >>

SlopeA ==
    [ t |-> "obj",
      elevation_change_meters |-> Num(FALSE, 30, <<5>>, <<5>>),
      slope_classification |-> Str("Moderate"),
      buildability_assessment |-> Str("Buildable with grading") ]

SlopeB ==
    [ t |-> "obj",
      elevation_change_meters |-> Num(FALSE, 2, <<3, 5>>, Exact2_35),
      slope_classification |-> Str("Flat"),
      buildability_assessment |-> Str("Highly buildable") ]

\* the end-to-end scenario of the specification, report "ABC"
ResultA ==
    [ t |-> "obj",
      address |-> Str("350 S 400 E, Salt Lake City, UT"),
      latitude |-> Num(FALSE, 40, <<7, 6>>, Exact40_76),
      longitude |-> Num(TRUE, 111, <<8, 8>>, Exact111_88),
      elevation_min |-> Num(FALSE, 1280, <<>>, <<>>),
      elevation_max |-> Num(FALSE, 1310, <<5>>, <<5>>),
      elevation_avg |-> Num(FALSE, 1295, <<2>>, Exact1295_2),
      slope_analysis |-> SlopeA,
      access_score |-> Num(FALSE, 7, <<5>>, <<5>>),
      report_pdf |-> Str(<<"Q", "U", "J", "D">>) ]

\* a complete result whose numbers need rounding; no report_pdf member
ResultB ==
    [ t |-> "obj",
      address |-> Str("1 Main St"),
      latitude |-> Num(FALSE, 40, <<7, 6, 0, 8, 5, 2, 5>>, Exact40_7608525),
      longitude |-> Num(TRUE, 111, <<8, 9, 1, 0, 4, 3, 5>>, Exact111_8910435),
      elevation_min |-> Num(FALSE, 1279, <<9, 5>>, Exact1279_95),
      elevation_max |-> Num(FALSE, 1310, <<5, 5>>, Exact1310_55),
      elevation_avg |-> Num(FALSE, 1295, <<2, 5>>, <<2, 5>>),
      slope_analysis |-> SlopeB,
      access_score |-> Str("8/10") ]

\* latitude is missing; report "A"
ResultNoLatitude ==
    [ t |-> "obj",
      address |-> Str("3 Main St"),
      longitude |-> Num(TRUE, 111, <<8, 8>>, Exact111_88),
      elevation_min |-> Num(FALSE, 1280, <<>>, <<>>),
      elevation_max |-> Num(FALSE, 1310, <<5>>, <<5>>),
      elevation_avg |-> Num(FALSE, 1295, <<2>>, Exact1295_2),
      slope_analysis |-> SlopeA,
      access_score |-> Num(FALSE, 7, <<5>>, <<5>>),
      report_pdf |-> Str(<<"Q", "Q", "=", "=">>) ]

\* slope_analysis is missing; report_pdf is null
ResultNoSlope ==
    [ t |-> "obj",
      address |-> Str("4 Main St"),
      latitude |-> Num(FALSE, 40, <<7, 6>>, Exact40_76),
      longitude |-> Num(TRUE, 111, <<8, 8>>, Exact111_88),
      elevation_min |-> Num(FALSE, 1280, <<>>, <<>>),
      elevation_max |-> Num(FALSE, 1310, <<5>>, <<5>>),
      elevation_avg |-> Num(FALSE, 1295, <<2>>, Exact1295_2),
      access_score |-> Num(FALSE, 7, <<5>>, <<5>>),
      report_pdf |-> Null ]

\* a complete result whose report_pdf is not base64
ResultBadReport ==
    [ResultA EXCEPT !.address = Str("5 Main St"),
                    !.report_pdf = Str(<<"%", "P", "D", "F">>)]

Results ==
    { ResultA, ResultB, ResultNoLatitude, ResultNoSlope, ResultBadReport }

ErrorBodies ==
    { [t |-> "obj", detail |-> Str("bad address")],
      [t |-> "obj", detail |-> Str("")],
      [t |-> "obj"] }

Responses ==
    [ok : {TRUE},
     body : {Parsed(v) : v \in Results} \cup {HtmlBody}]
      \cup
    [ok : {FALSE},
     body : {Parsed(v) : v \in ErrorBodies \cup {Null}}
              \cup MissingBodies \cup {HtmlBody}]

Bodies == { response.body : response \in Responses }

\* what fetch() rejects with
RejectionMessages == {"Failed to fetch", ""}

NoResponse == [ok |-> FALSE, body |-> NoBody]

(***************************************************************************)
(* State machine.                                                          *)
(***************************************************************************)
NoSave == [filename |-> "", type |-> "", content |-> <<>>]

\* the page state a handler run leaves behind
Commit(w) ==
    /\ loadingHidden' = w.loadingHidden
    /\ resultsHidden' = w.resultsHidden
    /\ errorHidden' = w.errorHidden
    /\ errorText' = w.errorText
    /\ fields' = w.fields
    /\ currentReportPDF' = w.currentReportPDF
    /\ liveURLs' = w.liveURLs
    /\ anchors' = w.anchors
    /\ lastSave' = w.lastSave
    /\ uncaught' = w.uncaught
    /\ log' = w.log

\* what is displayed or stored, without the record of calls
View(w) ==
    [ loadingHidden |-> w.loadingHidden,
      resultsHidden |-> w.resultsHidden,
      errorHidden |-> w.errorHidden,
      errorText |-> w.errorText,
      fields |-> w.fields,
      currentReportPDF |-> w.currentReportPDF ]

Event(kind, r, input, response, message) ==
    [ kind |-> kind, r |-> r, input |-> input, response |-> response,
      message |-> message ]

Pending(r) == r \in 1..Len(requests) /\ requests[r].pc # "done"
AnyPending == \E r \in 1..Len(requests) : Pending(r)

\* The page as the HTML delivers it: the three areas hidden, the fields
\* empty; script.js:4 sets currentReportPDF.
Init ==
    /\ engine \in Engines
    /\ loadingHidden = TRUE
    /\ resultsHidden = TRUE
    /\ errorHidden = TRUE
    /\ errorText = ""
    /\ fields = [id \in FieldNames |-> ""]
    /\ currentReportPDF = Null
    /\ requests = <<>>
    /\ liveURLs = 0
    /\ anchors = 0
    /\ lastSave = NoSave
    /\ uncaught = FALSE
    /\ log = <<>>
    /\ lastEvent = Event("load", 0, <<>>, NoResponse, "")
    /\ nonBlankSubmits = 0
    /\ base = View([ loadingHidden |-> TRUE, resultsHidden |-> TRUE,
                     errorHidden |-> TRUE, errorText |-> "",
                     fields |-> [id \in FieldNames |-> ""],
                     currentReportPDF |-> Null ])
    /\ groupSize = 0
    /\ groupClean = TRUE

\* a variant without the `return` of script.js:13
SubmitHandlerNoReturn(w, address) ==
    Call(ShowLoading(IF address = <<>> THEN RejectAddress(w) ELSE w), "fetch")

\* script.js:6-28 up to the suspension at `await fetch(...)`
SubmitHandler(w, address) ==
    IF address = <<>> THEN RejectAddress(w)
    ELSE Call(ShowLoading(w), "fetch")

\* the submit event with `value` in #addressInput
Submit(value) ==
    \E w \in {SubmitHandler(Page, Trim(value))} :
    LET address == Trim(value)
        issued == "fetch" \in { w.log[i] : i \in 1..Len(w.log) }
    IN /\ issued => Len(requests) < MaxSubmits
       /\ Commit(w)
       /\ requests' =
            IF issued
            THEN Append(requests, [ pc |-> "fetch", address |-> address,
                                    ok |-> FALSE ])
            ELSE requests
       /\ lastEvent' = Event("submit", 0, value, NoResponse, "")
       /\ nonBlankSubmits' = nonBlankSubmits + (IF IsBlank(value) THEN 0 ELSE 1)
       /\ UNCHANGED engine

\* fetch() resolves once the response's status line and headers are in; the
\* handler reads response.ok, calls response.json() and suspends again
\* (script.js:31 or script.js:35) while the body is still to be read
FetchResolves(r, ok) ==
    /\ r \in 1..Len(requests)
    /\ requests[r].pc = "fetch"
    /\ requests' = [requests EXCEPT ![r].pc = "json", ![r].ok = ok]
    /\ lastEvent' = Event("response", r, <<>>, [ok |-> ok, body |-> NoBody], "")
    /\ \E w \in {Call(Page, "response.json")} : Commit(w)
    /\ UNCHANGED << nonBlankSubmits, engine >>

\* fetch() rejects: script.js:38-43
FetchRejects(r, message) ==
    /\ r \in 1..Len(requests)
    /\ requests[r].pc = "fetch"
    /\ requests' = [requests EXCEPT ![r].pc = "done", ![r].address = <<>>]
    /\ lastEvent' = Event("rejected", r, <<>>, NoResponse, message)
    /\ \E w \in {OnRejected(Page, message)} : Commit(w)
    /\ UNCHANGED << nonBlankSubmits, engine >>

\* script.js:30-43 from the point where response.json() settled
OnJsonSettled(w, response) ==
    IF response.body.parses
    THEN OnJsonResolved(w, response.ok, response.body.value)
    ELSE OnRejected(w, response.body.message)

\* response.json() settles, with the body read and parsed or with the
\* parser's error, and the handler runs to its end
JsonSettles(r, body) ==
    /\ r \in 1..Len(requests)
    /\ requests[r].pc = "json"
    /\ [ok |-> requests[r].ok, body |-> body] \in Responses
    /\ requests' = [requests EXCEPT ![r].pc = "done", ![r].address = <<>>]
    /\ \E response \in {[ok |-> requests[r].ok, body |-> body]} :
          /\ lastEvent' = Event("json", r, <<>>, response, "")
          /\ \E w \in {OnJsonSettled(Page, response)} : Commit(w)
    /\ UNCHANGED << nonBlankSubmits, engine >>

\* a click on #downloadBtn
DownloadClick ==
    /\ \E saved \in BOOLEAN : \E w \in {DownloadReport(Page, saved)} : Commit(w)
    /\ lastEvent' = Event("click", 0, <<>>, NoResponse, "")
    /\ UNCHANGED << requests, nonBlankSubmits, engine >>

\* the record of overlapping submissions is not kept
Untracked == UNCHANGED << base, groupSize, groupClean >>

Next ==
    \/ \E value \in AddressInputs : Submit(value) /\ Untracked
    \/ \E r \in 1..MaxSubmits, ok \in BOOLEAN :
          FetchResolves(r, ok) /\ Untracked
    \/ \E r \in 1..MaxSubmits, message \in RejectionMessages :
          FetchRejects(r, message) /\ Untracked
    \/ \E r \in 1..MaxSubmits, body \in Bodies :
          JsonSettles(r, body) /\ Untracked
    \/ DownloadClick /\ Untracked

Spec == Init /\ [][Next]_vars

\* every in-flight request eventually resolves or rejects
Settles ==
    /\ \E r \in 1..MaxSubmits :
          \/ \E body \in Bodies : JsonSettles(r, body)
          \/ \E ok \in BOOLEAN : FetchResolves(r, ok)
          \/ \E message \in RejectionMessages : FetchRejects(r, message)
    /\ Untracked

FairSpec == Spec /\ WF_vars(Settles)

(***************************************************************************)
(* The same machine with a record of overlapping submissions: a group is   *)
(* the submissions issued from the moment no request is pending until      *)
(* again none is.                                                          *)
(***************************************************************************)
TrackOverlap ==
    LET issued == Len(requests') > Len(requests)
        settles == lastEvent'.kind \in {"response", "rejected", "json"}
    IN /\ base' = IF issued /\ ~AnyPending
                  THEN [ loadingHidden |-> loadingHidden',
                         resultsHidden |-> resultsHidden',
                         errorHidden |-> errorHidden',
                         errorText |-> errorText',
                         fields |-> fields',
                         currentReportPDF |-> currentReportPDF' ]
                  ELSE base
       /\ groupSize' = IF ~issued THEN groupSize
                       ELSE IF AnyPending THEN groupSize + 1 ELSE 1
       /\ groupClean' = IF issued THEN ~AnyPending \/ groupClean
                        ELSE IF settles THEN groupClean
                        ELSE groupClean /\ ~AnyPending

OverlapNext ==
    \/ \E value \in AddressInputs : Submit(value) /\ TrackOverlap
    \/ \E r \in 1..MaxSubmits, ok \in BOOLEAN :
          FetchResolves(r, ok) /\ TrackOverlap
    \/ \E r \in 1..MaxSubmits, message \in RejectionMessages :
          FetchRejects(r, message) /\ TrackOverlap
    \/ \E r \in 1..MaxSubmits, body \in Bodies :
          JsonSettles(r, body) /\ TrackOverlap
    \/ DownloadClick /\ TrackOverlap

OverlapSpec == Init /\ [][OverlapNext]_vars

(***************************************************************************)
(* The download of an encoded report: the page holds the report the        *)
(* service encoded from the bytes b, and the user clicks #downloadBtn.     *)
(***************************************************************************)
MaxBytes == 4

ByteValues == {0, 1, 77, 128, 255}

ByteSeqs == UNION { [1..n -> ByteValues] : n \in 0..MaxBytes }

\* the scenario's result with the report encoded from b
ReportResult(b) == [ResultA EXCEPT !.report_pdf = Str(Base64Encode(b))]

\* the page before any event
FreshPage ==
    [ loadingHidden |-> TRUE, resultsHidden |-> TRUE, errorHidden |-> TRUE,
      errorText |-> "", fields |-> [id \in FieldNames |-> ""],
      currentReportPDF |-> Null, liveURLs |-> 0, anchors |-> 0,
      lastSave |-> NoSave, uncaught |-> FALSE, log |-> <<>> ]

\* the page after the address "a b" was submitted and the service answered
\* with ReportResult(b)
PageHolding(b) ==
    OnJsonResolved([SubmitHandler(FreshPage, <<97, 32, 98>>) EXCEPT !.log = <<>>],
                   TRUE, ReportResult(b))

RoundTripInit ==
    /\ engine \in Engines
    /\ \E b \in ByteSeqs : \E w \in {PageHolding(b)} :
        /\ loadingHidden = w.loadingHidden
        /\ resultsHidden = w.resultsHidden
        /\ errorHidden = w.errorHidden
        /\ errorText = w.errorText
        /\ fields = w.fields
        /\ currentReportPDF = w.currentReportPDF
        /\ liveURLs = w.liveURLs
        /\ anchors = w.anchors
        /\ lastSave = w.lastSave
        /\ uncaught = w.uncaught
        /\ log = w.log
        /\ requests = << [pc |-> "done", address |-> <<>>, ok |-> TRUE] >>
        /\ lastEvent = Event("json", 1, b,
                             [ok |-> TRUE, body |-> Parsed(ReportResult(b))], "")
        /\ nonBlankSubmits = 1
        /\ base = View(FreshPage)
        /\ groupSize = 0
        /\ groupClean = TRUE

RoundTripNext == DownloadClick /\ Untracked

RoundTripSpec == RoundTripInit /\ [][RoundTripNext]_vars

(***************************************************************************)
(* Properties.                                                             *)
(***************************************************************************)
Calls == { log[i] : i \in 1..Len(log) }

\* the most recent handler run was the end of a submit handler run
Settled == lastEvent.kind \in {"rejected", "json"}

\* the most recent handler run handled response.json() settling with a
\* body that parsed to an object
ParsedObject(ok) ==
    /\ lastEvent.kind = "json"
    /\ lastEvent.response.ok = ok
    /\ lastEvent.response.body.parses
    /\ lastEvent.response.body.value.t = "obj"

NoReportMessage == "No report available to download"
TransportFallback == "Failed to analyze site. Please try again."

\* C1: a submit whose input is empty or whitespace-only issues no request and
\* never shows the loading indicator, it only displays an error message; so
\* the number of requests issued equals the number of submits whose input
\* has a non-whitespace character.
C1_BlankSubmitIssuesNoRequest ==
    /\ Len(requests) = nonBlankSubmits
    /\ (lastEvent.kind = "submit" /\ IsBlank(lastEvent.input)) =>
          /\ log = <<"showError">>
          /\ ~errorHidden
          /\ errorText = "Please enter an address"

C1_Witness ==
    /\ lastEvent.kind = "submit"
    /\ lastEvent.input = <<32, 9, 13, 10, 160>>
    /\ Len(requests) = 1
    /\ nonBlankSubmits = 1

\* C2 (safety part): when a submit handler run ends, on any exit path, the
\* loading indicator is hidden, and hiding it is the last thing the run does,
\* after the result or the error has been applied.
C2_ClearedLast ==
    Settled =>
      /\ loadingHidden
      /\ Len(log) >= 2
      /\ log[Len(log)] = "loading.hide"
      /\ \E i \in 1..(Len(log) - 1) : log[i] \in {"showError", "results.show"}

\* C2: every submission that entered the loading state ends with the loading
\* indicator hidden, on every exit path and after the result or error was
\* applied; and if every in-flight request eventually resolves or rejects,
\* a loading indicator that is shown is eventually hidden (it is hidden
\* again and again).
C2_LoadingCleared ==
    /\ []C2_ClearedLast
    /\ []<>loadingHidden

\* the exit path through an exception thrown while rendering
C2_Witness ==
    /\ lastEvent.kind = "json"
    /\ lastEvent.response = [ok |-> TRUE, body |-> Parsed(ResultNoLatitude)]
    /\ loadingHidden
    /\ ~errorHidden

\* C3: whenever a request is pending, the loading indicator is visible and
\* neither the results area nor the error area is visible.
C3_PendingShowsOnlyLoading ==
    AnyPending => (~loadingHidden /\ resultsHidden /\ errorHidden)

\* the page state the event would have produced from page state b
Alone(b, event) ==
    LET w == b @@ Page
    IN View(IF event.kind = "rejected" THEN OnRejected(w, event.message)
            ELSE OnJsonSettled(w, event.response))

\* two or more overlapping submissions, nothing else in between, all settled
OverlapSettled ==
    /\ Settled
    /\ ~AnyPending
    /\ groupSize >= 2
    /\ groupClean

\* C4: after overlapping submissions have all resolved, the displayed state
\* and the stored report are exactly what the last resolved response alone
\* would have produced.
C4_LastResolvedWins == OverlapSettled => View(Page) = Alone(base, lastEvent)

\* C5: an unsuccessful response whose body parses to an object displays the
\* body's detail text when present and non-empty and "Analysis failed" when
\* detail is absent; the run does not show the results area and does not
\* change the stored report.
C5_ServiceErrorMessage ==
    [][ (lastEvent' # lastEvent /\ ParsedObject(FALSE)') =>
          LET detail == Get(lastEvent'.response.body.value, "detail")
          IN /\ ~errorHidden'
             /\ (detail.t = "str" /\ detail.s # "") => errorText' = detail.s
             /\ detail.t = "undefined" => errorText' = "Analysis failed"
             /\ resultsHidden' = resultsHidden
             /\ fields' = fields
             /\ currentReportPDF' = currentReportPDF ]_vars

C5_Witness ==
    /\ ParsedObject(FALSE)
    /\ Get(lastEvent.response.body.value, "detail") = Str("bad address")
    /\ errorText = "bad address"
    /\ currentReportPDF = ResultA.report_pdf

\* C6: an unsuccessful response whose body is missing (empty) or is not JSON
\* (an HTML page) displays exactly "Analysis failed".
C6_FallbackOnUnparsableBody ==
    ( /\ lastEvent.kind = "json"
      /\ ~lastEvent.response.ok
      /\ ~lastEvent.response.body.parses ) => errorText = "Analysis failed"

\* C7: when fetch rejects, the error area becomes visible with the
\* rejection's message, or with the fallback text when the message is empty;
\* the run does not show the results area, which is hidden when no other
\* submission overlapped this one.
C7_TransportErrorMessage ==
    [][ (lastEvent' # lastEvent /\ lastEvent'.kind = "rejected") =>
          /\ ~errorHidden'
          /\ errorText' = IF lastEvent'.message # "" THEN lastEvent'.message
                          ELSE TransportFallback
          /\ resultsHidden' = resultsHidden
          /\ groupSize = 1 => resultsHidden' ]_vars

C7_Witness ==
    /\ lastEvent.kind = "rejected"
    /\ lastEvent.message = ""
    /\ errorText = TransportFallback
    /\ ~errorHidden
    /\ resultsHidden

\* C8: a download click while no report payload is held displays "No report
\* available to download" and does nothing else: no decode, no object URL,
\* no anchor, no file save, and the stored payload is unchanged.
C8_NoReportNoDownload ==
    [][ (lastEvent'.kind = "click" /\ Falsy(currentReportPDF)) =>
          /\ log' = <<"showError">>
          /\ ~errorHidden'
          /\ errorText' = NoReportMessage
          /\ lastSave' = lastSave
          /\ liveURLs' = liveURLs
          /\ anchors' = anchors
          /\ ~uncaught'
          /\ currentReportPDF' = currentReportPDF ]_vars

\* the click comes after a successful analysis without report_pdf replaced a
\* report that had been downloaded
C8_Witness ==
    /\ lastEvent.kind = "click"
    /\ currentReportPDF = Undefined
    /\ fields["resultAddress"] = "1 Main St"
    /\ lastSave # NoSave
    /\ errorText = NoReportMessage
    /\ ~errorHidden

\* C9: a download click while a report payload is held triggers exactly one
\* file save, named site-analysis-report.pdf, whose content is the decoding
\* of the held payload, and leaves the stored payload unchanged.
C9_DownloadSavesOnce ==
    [][ (lastEvent'.kind = "click" /\ ~Falsy(currentReportPDF)) =>
          /\ Cardinality({ i \in 1..Len(log') : log'[i] = "click" }) = 1
          /\ lastSave'.filename = "site-analysis-report.pdf"
          /\ lastSave'.content = atob(currentReportPDF.s).bytes
          /\ currentReportPDF' = currentReportPDF ]_vars

\* C10 (state part): after a successful response whose body is a result
\* object, the stored payload is that response's report_pdf
C10_StoredIsLatest ==
    ParsedObject(TRUE) =>
        currentReportPDF = Get(lastEvent.response.body.value, "report_pdf")

\* C10: after every successful response carrying a result object the stored
\* payload equals that response's report_pdf, nothing of the older payload
\* remains; when report_pdf is absent or null, a download click that follows
\* reports that no report is available and saves nothing.
C10_ReportReplaced ==
    /\ []C10_StoredIsLatest
    /\ [][ ( /\ ParsedObject(TRUE)
             /\ Falsy(Get(lastEvent.response.body.value, "report_pdf"))
             /\ lastEvent'.kind = "click" ) =>
               /\ errorText' = NoReportMessage
               /\ ~errorHidden'
               /\ lastSave' = lastSave
               /\ "click" \notin { log'[i] : i \in 1..Len(log') } ]_vars

\* a result with a null report_pdf arrives while an older report is held and
\* has been downloaded
C10_Witness ==
    /\ ParsedObject(TRUE)
    /\ lastEvent.response.body.value = ResultNoSlope
    /\ currentReportPDF = Null
    /\ lastSave.content = <<65, 66, 67>>

\* C11: the stored report payload changes only in a step that handles a
\* successful response carrying a result object: a validation failure, the
\* start of a submission, an unsuccessful response, a transport failure, an
\* unparsable body and a download click all leave it unchanged.
C11_ReportFrame ==
    [][ ParsedObject(TRUE)' \/ currentReportPDF' = currentReportPDF ]_vars

\* the report of an earlier success is downloaded after a later analysis
\* failed with a service error
C11_Witness ==
    /\ lastEvent.kind = "click"
    /\ Len(requests) = 2
    /\ requests[2].pc = "done"
    /\ errorText = "bad address"
    /\ currentReportPDF = ResultA.report_pdf
    /\ lastSave.content = <<65, 66, 67>>

\* the calls of the most recent handler run, in order
Before(a, b) ==
    \E i, j \in 1..Len(log) : i < j /\ log[i] = a /\ log[j] = b

\* C12: no object URL stays live and no anchor stays in the document after a
\* download; a run that created them revoked the URL and removed the anchor
\* after triggering the save, whether the save succeeded or failed.
C12_HandlesReleased ==
    /\ liveURLs = 0
    /\ anchors = 0
    /\ "createObjectURL" \in Calls =>
          /\ Before("createObjectURL", "click")
          /\ Before("appendChild", "click")
          /\ Before("click", "revokeObjectURL")
          /\ Before("click", "removeChild")

\* a download of report "A" whose save failed
C12_Witness ==
    /\ lastEvent.kind = "click"
    /\ "save.failed" \in Calls
    /\ "revokeObjectURL" \in Calls
    /\ lastSave.content = <<65>>
    /\ fields["resultAddress"] = "3 Main St"
    /\ liveURLs = 0
    /\ anchors = 0

\* C13: no handler run ends with an uncaught exception, and a run displays
\* at most one message.
C13_ErrorsCaught ==
    /\ ~uncaught
    /\ Cardinality({ i \in 1..Len(log) : log[i] = "showError" }) <= 1

\* the results whose nine displayed members are all present
CompleteResults == {ResultA, ResultB, ResultBadReport}

\* the most recent handler run handled a successful response carrying the
\* complete result `result`
Displayed(result) ==
    /\ ParsedObject(TRUE)
    /\ lastEvent.response.body.value = result

\* C14: after a successful response carrying a complete result, every one of
\* the nine display fields was assigned by that run and is non-empty, the
\* text fields hold the response's address, slope classification,
\* buildability assessment and access score, the results area is visible and
\* the loading indicator is hidden.
C14_AllFieldsPopulated ==
    \A result \in CompleteResults :
      Displayed(result) =>
        /\ \A id \in FieldNames : id \in Calls /\ fields[id] # ""
        /\ fields["resultAddress"] = result.address.s
        /\ fields["slopeClass"] = result.slope_analysis.slope_classification.s
        /\ fields["buildability"] =
              result.slope_analysis.buildability_assessment.s
        /\ fields["accessScore"] = (IF result = ResultB THEN "8/10" ELSE "7.5")
        /\ "results.show" \in Calls
        /\ ~resultsHidden
        /\ loadingHidden

\* the second of two analyses
C14_Witness ==
    /\ Displayed(ResultB)
    /\ Len(requests) = 2
    /\ ~AnyPending
    /\ fields["resultAddress"] = "1 Main St"
    /\ fields["accessScore"] = "8/10"
    /\ ~resultsHidden

\* C15: a successful response carrying a result object, complete or partial,
\* ends with the results area shown by that run and without an error shown.
C15_PartialResultDisplayed ==
    ParsedObject(TRUE) =>
        /\ "results.show" \in Calls
        /\ "showError" \notin Calls
        /\ ~resultsHidden

\* C17: on a successful complete result the coordinates are rendered as
\* "Coordinates: <lat>, <lon>" with exactly 6 decimal places each, and the
\* four elevation fields with exactly 1 decimal place followed by "m",
\* rounded to the nearest, padded with zeros.
C17_FixedPrecision ==
    /\ (Displayed(ResultA) \/ Displayed(ResultBadReport)) =>
          /\ fields["resultCoords"] = "Coordinates: 40.760000, -111.880000"
          /\ fields["elevMin"] = "1280.0m"
          /\ fields["elevMax"] = "1310.5m"
          /\ fields["elevAvg"] = "1295.2m"
          /\ fields["elevChange"] = "30.5m"
    /\ Displayed(ResultB) =>
          /\ fields["resultCoords"] = "Coordinates: 40.760852, -111.891043"
          /\ fields["elevMin"] = "1280.0m"
          /\ fields["elevMax"] = "1310.5m"
          /\ fields["elevAvg"] = "1295.3m"
          /\ fields["elevChange"] = "2.4m"

\* 1279.95 is displayed as 1280.0m
C17_Witness ==
    /\ Displayed(ResultB)
    /\ fields["elevMin"] = "1280.0m"
    /\ fields["elevAvg"] = "1295.3m"

\* C16: for every byte sequence b, decoding base64(b) as the download
\* handler does gives b again, in length and in every byte; and the first
\* download of a non-empty report saves exactly b.
C16_RoundTrip ==
    /\ [](lastEvent.kind = "json" =>
            /\ currentReportPDF = Str(Base64Encode(lastEvent.input))
            /\ atob(currentReportPDF.s) =
                  [threw |-> FALSE, bytes |-> lastEvent.input])
    /\ [][ (lastEvent.kind = "json" /\ lastEvent.input # <<>>) =>
            /\ Len(lastSave'.content) = Len(lastEvent.input)
            /\ lastSave'.content = lastEvent.input ]_vars

\* a report of four bytes: one full group and one byte padded with "=="
C16_Witness ==
    /\ lastEvent.kind = "click"
    /\ lastSave.content = <<255, 0, 128, 77>>
    /\ currentReportPDF = Str(<<"/", "w", "C", "A", "T", "Q", "=", "=">>)

\* the message of the error the event raised, for an event that raised one
MessageOf(event) ==
    CASE event.kind = "submit" -> "Please enter an address"
      [] event.kind = "click" -> NoReportMessage
      [] event.kind = "rejected" ->
           IF event.message # "" THEN event.message ELSE TransportFallback
      [] event.kind = "json" /\ ~event.response.body.parses ->
           event.response.body.message
      [] event.kind = "json" /\ event.response.body.parses ->
           LET value == event.response.body.value
               old == engine.readError = "property"
           IN CASE value = ResultNoLatitude ->
                     IF old THEN "Cannot read property 'toFixed' of undefined"
                     ELSE "Cannot read properties of undefined "
                            \o "(reading 'toFixed')"
                [] value = ResultNoSlope ->
                     IF old
                     THEN "Cannot read property 'elevation_change_meters' "
                            \o "of undefined"
                     ELSE "Cannot read properties of undefined "
                            \o "(reading 'elevation_change_meters')"
                [] value = Null ->
                     IF old THEN "Cannot read property 'detail' of null"
                     ELSE "Cannot read properties of null (reading 'detail')"
                [] value = [t |-> "obj", detail |-> Str("bad address")] ->
                     "bad address"
                [] OTHER -> "Analysis failed"
      [] OTHER -> ""

\* C18: a handler run shows at most one error; when it shows one, the error
\* area is visible and its text is exactly the message of that error,
\* whatever was displayed before; a run that shows none leaves the text as
\* it was; and a submit that passes validation hides the error area before
\* it issues the request.  The error events of the claim are those that
\* reach showError.  One error never does: the exception of atob
\* (script.js:87) leaves the click handler uncaught, which is the defect
\* stated under C13; that run is checked here like any run that shows
\* nothing, the text must stay what it was.
C18_SingleErrorMessage ==
    [][ LET shown == { i \in 1..Len(log') : log'[i] = "showError" }
        IN /\ Cardinality(shown) <= 1
           /\ shown # {} =>
                 /\ ~errorHidden'
                 /\ errorText' = MessageOf(lastEvent')
           /\ shown = {} => errorText' = errorText
           /\ "fetch" \in Calls' =>
                 /\ shown = {}
                 /\ errorHidden'
                 /\ Before("error.hide", "fetch")' ]_vars

\* the only analysis ended in an error, and a download click then replaced
\* the displayed message
C18_Witness ==
    /\ lastEvent.kind = "click"
    /\ Len(requests) = 1
    /\ requests[1].pc = "done"
    /\ resultsHidden
    /\ currentReportPDF = Null
    /\ ~errorHidden
    /\ errorText = NoReportMessage

\* C19: the results area and the error area are never visible at the same
\* time.
C19_ResultsXorError == resultsHidden \/ errorHidden

\* C20: a successful response whose rendering throws changes neither the
\* stored report payload nor any displayed field.
C20_AllOrNothing ==
    [][ ( /\ lastEvent' # lastEvent
          /\ ParsedObject(TRUE)'
          /\ "showError" \in Calls' ) =>
            /\ currentReportPDF' = currentReportPDF
            /\ fields' = fields ]_vars

====
